---- MODULE Spec2Model ----
(***************************************************************************)
(* Job orchestration of the batch image compressor (src/unnamed/part_000). *)
(* The state is the job store (imageFilesState, nextId), the transformation *)
(* and archiver promises in flight, the registry of object URLs kept by the *)
(* browser, and the part of the DOM that enables or disables the handlers.  *)
(* One action per event handler or promise continuation; every action runs  *)
(* its handler to completion, renders included.                             *)
(***************************************************************************)
EXTENDS Integers, Sequences, FiniteSets, Bags, TLC

(***************************************************************************)
(* Bounds of the model.                                                    *)
(***************************************************************************)
\* no handler dispatches a transformation once MaxRuns have been dispatched,
\* and a Submit is accepted only while its files fit in what is left
MaxRuns == 3
\* largest FileList handed to processFiles by one change/drop event
MaxBatch == 2
\* total number of export-all operations started in one behaviour
MaxZips == 1

(***************************************************************************)
(* Program constants.                                                      *)
(***************************************************************************)
DefaultTargetSize == 500
KBMultiplier == 1024
MBMultiplier == 1024 * 1024

(***************************************************************************)
(* JavaScript numbers, as far as the handlers distinguish them: a finite   *)
(* integer, NaN, Infinity and -Infinity.                                   *)
(***************************************************************************)
Num(n) == [k |-> "num", v |-> n]
NaN == [k |-> "NaN", v |-> 0]
PosInfinity == [k |-> "Infinity", v |-> 0]
NegInfinity == [k |-> "-Infinity", v |-> 0]

isNaN(x) == x.k = "NaN"
\* x <= 0 in JavaScript (false for NaN)
LeqZero(x) == (x.k = "num" /\ x.v <= 0) \/ x.k = "-Infinity"
\* x * m for a positive finite m
Times(x, m) == IF x.k = "num" THEN Num(x.v * m) ELSE x
IsPositiveFinite(x) == x.k = "num" /\ x.v > 0

(***************************************************************************)
(* Text of an input element: a sequence of one-character strings.          *)
(***************************************************************************)
Digits == {"0", "1", "2", "3", "4", "5", "6", "7", "8", "9"}
DigitVal(c) ==
    CASE c = "0" -> 0 [] c = "1" -> 1 [] c = "2" -> 2 [] c = "3" -> 3
      [] c = "4" -> 4 [] c = "5" -> 5 [] c = "6" -> 6 [] c = "7" -> 7
      [] c = "8" -> 8 [] c = "9" -> 9

InfinityText == <<"I", "n", "f", "i", "n", "i", "t", "y">>

\* texts a user can leave in a size input (no fraction or exponent part)
InputTexts ==
    { <<>>, <<"a">>, <<"0">>, <<"-", "5">>, <<"2">>, InfinityText }
Units == {"KB", "MB"}

RECURSIVE SkipSpace(_)
SkipSpace(s) == IF s # <<>> /\ Head(s) = " " THEN SkipSpace(Tail(s)) ELSE s

\* length of the longest prefix of s made of digits
RECURSIVE DigitPrefixLen(_)
DigitPrefixLen(s) ==
    IF s # <<>> /\ Head(s) \in Digits THEN 1 + DigitPrefixLen(Tail(s)) ELSE 0

RECURSIVE DigitsValue(_, _)
DigitsValue(s, acc) ==
    IF s = <<>> THEN acc ELSE DigitsValue(Tail(s), 10 * acc + DigitVal(Head(s)))

HasPrefix(s, p) == Len(s) >= Len(p) /\ SubSeq(s, 1, Len(p)) = p

\* parseFloat: leading white space skipped, optional sign, then "Infinity" or
\* the longest run of digits; anything else is NaN; trailing text is ignored
ParseUnsigned(s, neg) ==
    IF HasPrefix(s, InfinityText)
    THEN (IF neg THEN NegInfinity ELSE PosInfinity)
    ELSE IF DigitPrefixLen(s) = 0 THEN NaN
    ELSE LET n == DigitsValue(SubSeq(s, 1, DigitPrefixLen(s)), 0)
         IN Num(IF neg THEN 0 - n ELSE n)
parseFloat(text) ==
    LET s == SkipSpace(text)
    IN IF s # <<>> /\ Head(s) = "-" THEN ParseUnsigned(Tail(s), TRUE)
       ELSE IF s # <<>> /\ Head(s) = "+" THEN ParseUnsigned(Tail(s), FALSE)
       ELSE ParseUnsigned(s, FALSE)

\* value of an <input type="number">: the text when it is a floating-point
\* number (optional "-", then digits), the empty string otherwise
IsValidNumberText(s) ==
    LET d == IF s # <<>> /\ Head(s) = "-" THEN Tail(s) ELSE s
    IN d # <<>> /\ DigitPrefixLen(d) = Len(d)
NumberInputValue(text) == IF IsValidNumberText(text) THEN text ELSE <<>>

(***************************************************************************)
(* Files, results and URLs.                                                *)
(***************************************************************************)
\* the k-th file the user submits; a File is identified by its name
File(k) == <<"img", k>>
NoName == <<>>
\* the number of files one change or drop event can carry
BatchSizes == 0..MaxBatch

\* compressedFile: null, or the output of one transformation invocation
NoFile == [of |-> NoName, budget |-> NaN, run |-> 0]
\* compressedUrl: null; object URLs are numbered from 1
NoUrl == 0

\* history kept with an invocation: what the job held when the handler that
\* dispatched the run started (wasDone: its status was done)
NoPrior == [wasDone |-> FALSE, file |-> NoFile, url |-> NoUrl]

\* the record of one outstanding call of imageCompression
NoInv == [run |-> 0, id |-> -1, file |-> NoName, targetBytes |-> NaN,
          job |-> 0, prior |-> NoPrior, view |-> <<>>, entry |-> "",
          removed |-> FALSE, cleared |-> FALSE]

VARIABLES
    imageFilesState,   \* the job store, in insertion order
    nextId,            \* the id generator
    pending,           \* imageCompression promises not yet settled
    runs,              \* number of imageCompression calls made so far
    submitted,         \* number of files submitted so far
    urlNext,           \* the next object URL createObjectURL hands out
    revoked,           \* bag of the URLs passed to revokeObjectURL
    urlOwner,          \* history: urlOwner[u] is the originalUrl of the job
                       \* URL u was created for (0 for the archive's URL)
    zips,              \* generateAsync promises not yet settled
    zipCount,          \* number of export-all operations started so far
    cards,             \* the cards of resultsList as last rendered
    resultsVisible,    \* resultsContainer is displayed
    downloadAllBtnDisabled,
    applyToAllBtnDisabled,
    clearAllBtnDisabled,
    downloadCountBadge, \* the number shown, 0 when the badge is hidden
    downloadAllZipping, \* the "zipping" label is shown
    maxAssigned,       \* history: the largest id ever given to a job
    last               \* history: the handler that ran in the last step

dom == <<cards, resultsVisible, downloadAllBtnDisabled, applyToAllBtnDisabled,
         clearAllBtnDisabled, downloadCountBadge, downloadAllZipping>>
vars == <<imageFilesState, nextId, pending, runs, submitted, urlNext, revoked,
          urlOwner, zips,
          zipCount, cards, resultsVisible, downloadAllBtnDisabled,
          applyToAllBtnDisabled, clearAllBtnDisabled, downloadCountBadge,
          downloadAllZipping, maxAssigned, last>>

(***************************************************************************)
(* The job store.                                                          *)
(***************************************************************************)
Ids(files) == { files[i].id : i \in DOMAIN files }
HasId(files, id) == id \in Ids(files)
\* Array.prototype.find on the id: the first job with that id
FindById(files, id) ==
    files[CHOOSE i \in DOMAIN files :
            files[i].id = id /\ \A j \in DOMAIN files : files[j].id = id => i <= j]

Merge(job, updates) ==
    [f \in DOMAIN job |-> IF f \in DOMAIN updates THEN updates[f] ELSE job[f]]

updateFileState_IgnoresId(files, id, updates) ==
    [i \in DOMAIN files |-> Merge(files[i], updates)]
updateFileState(files, id, updates) ==
    IF ~HasId(files, id) THEN files
    ELSE LET index == CHOOSE i \in DOMAIN files :
                        files[i].id = id
                        /\ \A j \in DOMAIN files : files[j].id = id => i <= j
         IN [files EXCEPT ![index] = Merge(files[index], updates)]

Op(name, id, inv, size) ==
    [op |-> name, id |-> id, inv |-> inv, size |-> size, unit |-> ""]
\* a handler that read a size and a unit from its inputs
OpWithUnit(name, id, size, unit) ==
    [op |-> name, id |-> id, inv |-> NoInv, size |-> size, unit |-> unit]

(***************************************************************************)
(* Rendering: the DOM state render() and updateGlobalUI() leave behind.    *)
(***************************************************************************)
createCardElement(file) == [id |-> file.id, status |-> file.status]

anyCompressing(files) == \E i \in DOMAIN files : files[i].status = "compressing"
anyDone(files) == \E i \in DOMAIN files : files[i].status = "done"
IsReady_IgnoresStatus(f) == f.compressedFile # NoFile
IsReady(f) == f.status = "done" /\ f.compressedFile # NoFile
readyToDownloadCount_CountsResults(files) ==
    Cardinality({ i \in DOMAIN files : files[i].compressedFile # NoFile })
readyToDownloadCount(files) == Len(SelectSeq(files, IsReady))

updateGlobalUI_ClearAllStaysEnabled(files) ==
    /\ downloadAllBtnDisabled' = (anyCompressing(files) \/ ~anyDone(files))
    /\ applyToAllBtnDisabled' = anyCompressing(files)
    /\ clearAllBtnDisabled' = FALSE
    /\ downloadCountBadge' = readyToDownloadCount(files)
updateGlobalUI(files) ==
    /\ downloadAllBtnDisabled' = (anyCompressing(files) \/ ~anyDone(files))
    /\ applyToAllBtnDisabled' = anyCompressing(files)
    /\ clearAllBtnDisabled' = anyCompressing(files)
    /\ downloadCountBadge' = readyToDownloadCount(files)

render(files) ==
    /\ resultsVisible' = (Len(files) > 0)
    /\ cards' = [i \in DOMAIN files |-> createCardElement(files[i])]
    /\ updateGlobalUI(files)
    /\ UNCHANGED downloadAllZipping

(***************************************************************************)
(* The transformation runner up to its await.  A runner state is the store *)
(* together with the promises in flight: [files, pending, runs].           *)
(***************************************************************************)
\* history: what the store showed of each job (status and target parameters)
\* at the moment imageCompression was called
ViewOf(files) ==
    [i \in DOMAIN files |->
        [id |-> files[i].id, status |-> files[i].status,
         targetSize |-> files[i].targetSize, targetUnit |-> files[i].targetUnit]]

\* run numbers the calls; job, prior, view, entry, removed and cleared are
\* history: the job the run was dispatched for (its originalUrl), what that
\* job held before, the store at the call, the job's status when
\* compressToTargetSize was entered, and whether a Remove of its id or a
\* ClearAll happened while it was in flight
Invocation(run, id, fileState, targetBytes, files) ==
    [run |-> run, id |-> id, file |-> fileState.originalFile,
     targetBytes |-> targetBytes, job |-> fileState.originalUrl,
     prior |-> NoPrior, view |-> ViewOf(files), entry |-> fileState.status,
     removed |-> FALSE, cleared |-> FALSE]

\* a runner that leaves the status as it finds it
compressToTargetSize_NeverMarks(st, id, targetSizeBytes, suppressInitialRender) ==
    IF ~HasId(st.files, id) THEN st
    ELSE LET fileState == FindById(st.files, id)
         IN [files |-> st.files,
             pending |-> st.pending \cup
                         { Invocation(st.runs + 1, id, fileState, targetSizeBytes,
                                      st.files) },
             runs |-> st.runs + 1]
compressToTargetSize(st, id, targetSizeBytes, suppressInitialRender) ==
    IF ~HasId(st.files, id) THEN st
    ELSE LET fileState == FindById(st.files, id)
             files1 == IF suppressInitialRender THEN st.files
                       ELSE updateFileState(st.files, id, [status |-> "compressing"])
         IN [files |-> files1,
             pending |-> st.pending \cup
                         { Invocation(st.runs + 1, id, fileState, targetSizeBytes,
                                      files1) },
             runs |-> st.runs + 1]

UnitMultiplier_AlwaysKB(unit) == KBMultiplier
UnitMultiplier(unit) == IF unit = "MB" THEN MBMultiplier ELSE KBMultiplier

runCompressionForId(st, id) ==
    IF ~HasId(st.files, id) THEN st
    ELSE LET fileState == FindById(st.files, id)
             targetBytes == Times(fileState.targetSize,
                                  UnitMultiplier(fileState.targetUnit))
         IN compressToTargetSize(st, id, targetBytes, FALSE)

\* newFiles.forEach(file => runCompressionForId(file.id))
RECURSIVE RunEach(_, _)
RunEach(st, ids) ==
    IF ids = <<>> THEN st ELSE RunEach(runCompressionForId(st, Head(ids)), Tail(ids))

CompressEach_DispatchesNothing(st, ids, targetBytes) == st
\* filesToUpdate.forEach(file => compressToTargetSize(file.id, targetBytes, ...))
RECURSIVE CompressEach(_, _, _)
CompressEach(st, ids, targetBytes) ==
    IF ids = <<>> THEN st
    ELSE CompressEach(compressToTargetSize(st, Head(ids), targetBytes, TRUE),
                      Tail(ids), targetBytes)

\* history: the invocations dispatched by the current handler remember what
\* their job held in oldFiles, the store the handler started from
PriorOf(oldFiles, id) ==
    IF ~HasId(oldFiles, id) THEN NoPrior
    ELSE LET f == FindById(oldFiles, id)
         IN [wasDone |-> f.status = "done", file |-> f.compressedFile,
             url |-> f.compressedUrl]
TagPrior(P, oldFiles, oldRuns) ==
    { IF inv.run > oldRuns THEN [inv EXCEPT !.prior = PriorOf(oldFiles, inv.id)]
      ELSE inv : inv \in P }

(***************************************************************************)
(* The browser's object URLs.                                              *)
(***************************************************************************)
Revoke(bag, urls) == bag (+) SetToBag(urls)
TimesRevoked(u) == CopiesIn(u, revoked)
JobUrls(f) == {f.originalUrl} \cup (IF f.compressedUrl # NoUrl THEN {f.compressedUrl} ELSE {})

(***************************************************************************)
(* Init: the page after DOMContentLoaded, nothing submitted yet.  The      *)
(* listener renders nothing at start-up; the DOM starts as render() leaves *)
(* it for an empty store (upload zone shown, results container hidden).    *)
(***************************************************************************)
Init ==
    /\ imageFilesState = <<>>
    /\ nextId = 0
    /\ pending = {}
    /\ runs = 0
    /\ submitted = 0
    /\ urlNext = 1
    /\ revoked = EmptyBag
    /\ urlOwner = <<>>
    /\ zips = {}
    /\ zipCount = 0
    /\ cards = <<>>
    /\ resultsVisible = FALSE
    /\ downloadAllBtnDisabled = TRUE
    /\ applyToAllBtnDisabled = FALSE
    /\ clearAllBtnDisabled = FALSE
    /\ downloadCountBadge = 0
    /\ downloadAllZipping = FALSE
    /\ maxAssigned = -1
    /\ last = Op("init", -1, NoInv, NaN)

(***************************************************************************)
(* Submit: the change and drop events, processFiles(files).                *)
(***************************************************************************)
NewJob(file, id, url) ==
    [id |-> id, originalFile |-> file, originalUrl |-> url,
     compressedFile |-> NoFile, compressedUrl |-> NoUrl,
     status |-> "compressing",
     targetSize |-> Num(DefaultTargetSize), targetUnit |-> "KB"]

processFiles(n) ==
    /\ runs + n <= MaxRuns
    /\ LET files == [i \in 1..n |-> File(submitted + i)]
           newFiles == [i \in DOMAIN files |->
                           NewJob(files[i], nextId + i - 1, urlNext + i - 1)]
           st == RunEach([files |-> imageFilesState \o newFiles,
                          pending |-> pending, runs |-> runs],
                         [i \in DOMAIN files |-> newFiles[i].id])
       IN /\ imageFilesState' = st.files
          /\ pending' = st.pending
          /\ runs' = st.runs
          /\ render(st.files)
    /\ urlOwner' = urlOwner \o [i \in 1..n |-> urlNext + i - 1]
    /\ submitted' = submitted + n
    /\ nextId' = nextId + n
    /\ urlNext' = urlNext + n
    /\ maxAssigned' = IF n > 0 /\ nextId + n - 1 > maxAssigned
                      THEN nextId + n - 1 ELSE maxAssigned
    /\ last' = Op("Submit", nextId, NoInv, Num(n))
    /\ UNCHANGED <<revoked, zips, zipCount>>

(***************************************************************************)
(* The continuation of compressToTargetSize after its await.               *)
(***************************************************************************)
Output(inv) == [of |-> inv.file, budget |-> inv.targetBytes, run |-> inv.run]

\* Resolve as it would be if the success path stored no view handle
Resolve_StoresNoHandle(inv) ==
    /\ inv \in pending
    /\ pending' = pending \ {inv}
    /\ urlNext' = urlNext + 1
    /\ imageFilesState' =
           updateFileState(imageFilesState, inv.id,
                           [status |-> "done", compressedFile |-> Output(inv)])
    /\ render(imageFilesState')
    /\ urlOwner' = Append(urlOwner,
                          IF HasId(imageFilesState, inv.id)
                          THEN FindById(imageFilesState, inv.id).originalUrl
                          ELSE inv.job)
    /\ last' = Op("Resolve", inv.id, inv, NaN)
    /\ UNCHANGED <<nextId, runs, submitted, revoked, zips, zipCount, maxAssigned>>

\* imageCompression resolved: lines 197-201, then render()
Resolve(inv) ==
    /\ inv \in pending
    /\ pending' = pending \ {inv}
    /\ urlNext' = urlNext + 1
    /\ imageFilesState' =
           updateFileState(imageFilesState, inv.id,
                           [status |-> "done", compressedFile |-> Output(inv),
                            compressedUrl |-> urlNext])
    /\ render(imageFilesState')
    /\ urlOwner' = Append(urlOwner,
                          IF HasId(imageFilesState, inv.id)
                          THEN FindById(imageFilesState, inv.id).originalUrl
                          ELSE inv.job)
    /\ last' = Op("Resolve", inv.id, inv, NaN)
    /\ UNCHANGED <<nextId, runs, submitted, revoked, zips, zipCount, maxAssigned>>

\* Reject as it would be if the catch block also dropped the earlier result
Reject_ClearsResult(inv) ==
    /\ inv \in pending
    /\ pending' = pending \ {inv}
    /\ imageFilesState' =
           updateFileState(imageFilesState, inv.id,
                           [status |-> "error", compressedFile |-> NoFile,
                            compressedUrl |-> NoUrl])
    /\ render(imageFilesState')
    /\ last' = Op("Reject", inv.id, inv, NaN)
    /\ UNCHANGED <<nextId, runs, submitted, urlNext, urlOwner, revoked, zips, zipCount, maxAssigned>>

\* imageCompression rejected: lines 202-205, then render()
Reject(inv) ==
    /\ inv \in pending
    /\ pending' = pending \ {inv}
    /\ imageFilesState' = updateFileState(imageFilesState, inv.id, [status |-> "error"])
    /\ render(imageFilesState')
    /\ last' = Op("Reject", inv.id, inv, NaN)
    /\ UNCHANGED <<nextId, runs, submitted, urlNext, urlOwner, revoked, zips, zipCount, maxAssigned>>

(***************************************************************************)
(* Clicks on a result card (the delegated listener on resultsList).  A     *)
(* click reaches a button only when the card is rendered and the button is *)
(* present and not disabled.                                               *)
(***************************************************************************)
HasCard(id) == \E i \in DOMAIN cards : cards[i].id = id
\* Apply and Reset: absent on an error card, disabled on a compressing one
CardControlsEnabled(id) ==
    \E i \in DOMAIN cards : cards[i].id = id /\ cards[i].status = "done"

MarkRemoved(P, id) ==
    { IF inv.id = id THEN [inv EXCEPT !.removed = TRUE] ELSE inv : inv \in P }
MarkCleared(P) == { [inv EXCEPT !.cleared = TRUE] : inv \in P }

RemoveById_KeepsJob(files, id) == files
RemoveById(files, id) ==
    LET Keep(f) == f.id # id IN SelectSeq(files, Keep)

handleRemoveImage(id) ==
    /\ HasCard(id)
    /\ revoked' = IF HasId(imageFilesState, id)
                  THEN Revoke(revoked, JobUrls(FindById(imageFilesState, id)))
                  ELSE revoked
    /\ imageFilesState' = RemoveById(imageFilesState, id)
    /\ render(imageFilesState')
    /\ pending' = IF HasId(imageFilesState, id) THEN MarkRemoved(pending, id) ELSE pending
    /\ last' = Op("Remove", id, NoInv, NaN)
    /\ UNCHANGED <<nextId, runs, submitted, urlNext, urlOwner, zips, zipCount, maxAssigned>>

handleTargetSizeApply(id, text, newUnit) ==
    /\ CardControlsEnabled(id)
    /\ runs < MaxRuns
    /\ LET newSize == parseFloat(NumberInputValue(text))
           st == runCompressionForId(
                     [files |-> updateFileState(imageFilesState, id,
                                    [targetSize |-> newSize, targetUnit |-> newUnit]),
                      pending |-> pending, runs |-> runs], id)
       IN /\ imageFilesState' = st.files
          /\ pending' = TagPrior(st.pending, imageFilesState, runs)
          /\ runs' = st.runs
          /\ render(st.files)
          /\ last' = OpWithUnit("Apply", id, newSize, newUnit)
    /\ UNCHANGED <<nextId, submitted, urlNext, urlOwner, revoked, zips, zipCount, maxAssigned>>

\* handleReset as it would be if it nulled the result buffer only
handleReset_KeepsUrl(id) ==
    /\ CardControlsEnabled(id)
    /\ runs < MaxRuns
    /\ HasId(imageFilesState, id)
    /\ LET fileState == FindById(imageFilesState, id)
           st == runCompressionForId(
                     [files |-> updateFileState(imageFilesState, id,
                                    [compressedFile |-> NoFile,
                                     targetSize |-> Num(DefaultTargetSize),
                                     targetUnit |-> "KB"]),
                      pending |-> pending, runs |-> runs], id)
       IN /\ revoked' = IF fileState.compressedUrl # NoUrl
                        THEN Revoke(revoked, {fileState.compressedUrl})
                        ELSE revoked
          /\ imageFilesState' = st.files
          /\ pending' = TagPrior(st.pending, imageFilesState, runs)
          /\ runs' = st.runs
          /\ render(st.files)
    /\ last' = Op("Reset", id, NoInv, NaN)
    /\ UNCHANGED <<nextId, submitted, urlNext, urlOwner, zips, zipCount, maxAssigned>>

handleReset(id) ==
    /\ CardControlsEnabled(id)
    /\ runs < MaxRuns
    /\ HasId(imageFilesState, id)
    /\ LET fileState == FindById(imageFilesState, id)
           st == runCompressionForId(
                     [files |-> updateFileState(imageFilesState, id,
                                    [compressedFile |-> NoFile, compressedUrl |-> NoUrl,
                                     targetSize |-> Num(DefaultTargetSize),
                                     targetUnit |-> "KB"]),
                      pending |-> pending, runs |-> runs], id)
       IN /\ revoked' = IF fileState.compressedUrl # NoUrl
                        THEN Revoke(revoked, {fileState.compressedUrl})
                        ELSE revoked
          /\ imageFilesState' = st.files
          /\ pending' = TagPrior(st.pending, imageFilesState, runs)
          /\ runs' = st.runs
          /\ render(st.files)
    /\ last' = Op("Reset", id, NoInv, NaN)
    /\ UNCHANGED <<nextId, submitted, urlNext, urlOwner, zips, zipCount, maxAssigned>>

(***************************************************************************)
(* The toolbar of resultsContainer: apply-to-all, clear-all, download-all. *)
(* render() hides the container while the store is empty (lines 61-63), so *)
(* its buttons take clicks only while resultsVisible and not disabled.     *)
(* The global size input is read as free text (line 273).                  *)
(***************************************************************************)
NotError_IncludesError(f) == TRUE
NotError(f) == f.status # "error"

\* a loop that updates one job and dispatches its run before it turns to the next
RECURSIVE UpdateAndCompressEach(_, _, _, _)
UpdateAndCompressEach(st, ids, newSize, newUnit) ==
    IF ids = <<>> THEN st
    ELSE UpdateAndCompressEach(
             compressToTargetSize(
                 [st EXCEPT !.files = updateFileState(st.files, Head(ids),
                     [targetSize |-> newSize, targetUnit |-> newUnit,
                      status |-> "compressing"])],
                 Head(ids), Times(newSize, UnitMultiplier(newUnit)), TRUE),
             Tail(ids), newSize, newUnit)

handleApplyToAll_DispatchesAsItUpdates(text, newUnit) ==
    /\ resultsVisible
    /\ ~applyToAllBtnDisabled
    /\ LET newSize == parseFloat(text)
           filesToUpdate == SelectSeq(imageFilesState, NotError)
           ids == [i \in DOMAIN filesToUpdate |-> filesToUpdate[i].id]
           st == UpdateAndCompressEach([files |-> imageFilesState,
                                        pending |-> pending, runs |-> runs],
                                       ids, newSize, newUnit)
       IN /\ last' = OpWithUnit("ApplyToAll", -1, newSize, newUnit)
          /\ IF isNaN(newSize) \/ LeqZero(newSize) \/ Len(filesToUpdate) = 0
             THEN UNCHANGED <<imageFilesState, pending, runs, dom>>
             ELSE /\ runs < MaxRuns
                  /\ imageFilesState' = st.files
                  /\ pending' = TagPrior(st.pending, imageFilesState, runs)
                  /\ runs' = st.runs
                  /\ render(st.files)
    /\ UNCHANGED <<nextId, submitted, urlNext, urlOwner, revoked, zips, zipCount, maxAssigned>>

handleApplyToAll(text, newUnit) ==
    /\ resultsVisible
    /\ ~applyToAllBtnDisabled
    /\ LET newSize == parseFloat(text)
           filesToUpdate == SelectSeq(imageFilesState, NotError)
           ids == [i \in DOMAIN filesToUpdate |-> filesToUpdate[i].id]
           Batch[i \in 0..Len(ids)] ==
               IF i = 0 THEN imageFilesState
               ELSE updateFileState(Batch[i - 1], ids[i],
                        [targetSize |-> newSize, targetUnit |-> newUnit,
                         status |-> "compressing"])
           st == CompressEach([files |-> Batch[Len(ids)], pending |-> pending,
                               runs |-> runs],
                              ids, Times(newSize, UnitMultiplier(newUnit)))
       IN /\ last' = OpWithUnit("ApplyToAll", -1, newSize, newUnit)
          /\ IF isNaN(newSize) \/ LeqZero(newSize) \/ Len(filesToUpdate) = 0
             THEN UNCHANGED <<imageFilesState, pending, runs, dom>>
             ELSE /\ runs < MaxRuns
                  /\ imageFilesState' = st.files
                  /\ pending' = TagPrior(st.pending, imageFilesState, runs)
                  /\ runs' = st.runs
                  /\ render(st.files)
    /\ UNCHANGED <<nextId, submitted, urlNext, urlOwner, revoked, zips, zipCount, maxAssigned>>

AllJobUrls(files) == UNION { JobUrls(files[i]) : i \in DOMAIN files }

handleClearAll ==
    /\ resultsVisible
    /\ ~clearAllBtnDisabled
    /\ revoked' = Revoke(revoked, AllJobUrls(imageFilesState))
    /\ imageFilesState' = <<>>
    /\ nextId' = 0
    /\ render(imageFilesState')
    /\ pending' = MarkCleared(pending)
    /\ last' = Op("ClearAll", -1, NoInv, NaN)
    /\ UNCHANGED <<runs, submitted, urlNext, urlOwner, zips, zipCount, maxAssigned>>

ZipEntry(f) == [name |-> <<"compressed-">> \o f.originalFile, file |-> f.compressedFile]

\* handleDownloadAll up to its await
handleDownloadAll ==
    /\ resultsVisible
    /\ ~downloadAllBtnDisabled
    /\ zipCount < MaxZips
    /\ LET filesToZip == SelectSeq(imageFilesState, IsReady)
       IN zips' = zips \cup { [z |-> zipCount + 1,
                               entries |-> [i \in DOMAIN filesToZip |->
                                               ZipEntry(filesToZip[i])]] }
    /\ zipCount' = zipCount + 1
    /\ downloadAllZipping' = TRUE
    /\ downloadAllBtnDisabled' = TRUE
    /\ last' = Op("DownloadAll", -1, NoInv, NaN)
    /\ UNCHANGED <<imageFilesState, nextId, pending, runs, submitted, urlNext, urlOwner, revoked,
                   cards, resultsVisible, applyToAllBtnDisabled,
                   clearAllBtnDisabled, downloadCountBadge, maxAssigned>>

\* a finally block that restores the labels and leaves the button disabled
ZipFinally_LeavesButtonDisabled ==
    /\ downloadAllZipping' = FALSE
    /\ downloadAllBtnDisabled' = TRUE
    /\ UNCHANGED <<imageFilesState, nextId, pending, runs, submitted, zipCount, cards,
                   resultsVisible, applyToAllBtnDisabled, clearAllBtnDisabled,
                   downloadCountBadge, maxAssigned>>
\* the finally block of handleDownloadAll
ZipFinally ==
    /\ downloadAllZipping' = FALSE
    /\ downloadAllBtnDisabled' = FALSE
    /\ UNCHANGED <<imageFilesState, nextId, pending, runs, submitted, zipCount, cards,
                   resultsVisible, applyToAllBtnDisabled, clearAllBtnDisabled,
                   downloadCountBadge, maxAssigned>>

\* generateAsync resolved: the archive gets an object URL for the download
\* link, which is revoked right after the click
ZipResolve(zip) ==
    /\ zip \in zips
    /\ zips' = zips \ {zip}
    /\ urlNext' = urlNext + 1
    /\ revoked' = Revoke(revoked, {urlNext})
    /\ urlOwner' = Append(urlOwner, 0)
    /\ ZipFinally
    /\ last' = Op("ZipResolve", -1, NoInv, NaN)

\* generateAsync rejected
ZipReject(zip) ==
    /\ zip \in zips
    /\ zips' = zips \ {zip}
    /\ UNCHANGED <<urlNext, revoked, urlOwner>>
    /\ ZipFinally
    /\ last' = Op("ZipReject", -1, NoInv, NaN)

(***************************************************************************)
(* The specification.                                                      *)
(***************************************************************************)
CardIds == { cards[i].id : i \in DOMAIN cards }

Next ==
    \/ \E n \in BatchSizes : processFiles(n)
    \/ \E inv \in pending : Resolve(inv)
    \/ \E inv \in pending : Reject(inv)
    \/ \E id \in CardIds : handleRemoveImage(id)
    \/ \E id \in CardIds, text \in InputTexts, unit \in Units :
           handleTargetSizeApply(id, text, unit)
    \/ \E id \in CardIds : handleReset(id)
    \/ \E text \in InputTexts, unit \in Units : handleApplyToAll(text, unit)
    \/ handleClearAll
    \/ handleDownloadAll
    \/ \E zip \in zips : ZipResolve(zip)
    \/ \E zip \in zips : ZipReject(zip)

Spec == Init /\ [][Next]_vars

\* every promise imageCompression returned is settled in the end: some
\* outstanding invocation resolves or rejects as long as one is outstanding
\* (the number of invocations is bounded, so none is passed over for ever)
Settle == \E inv \in pending : Resolve(inv) \/ Reject(inv)
FairSpec == Spec /\ WF_vars(Settle)

(***************************************************************************)
(* Vocabulary of the properties.                                           *)
(***************************************************************************)
CreatedUrls == 1..(urlNext - 1)
\* the job instance created with originalUrl k is still in the store
JobAlive(k) == \E i \in DOMAIN imageFilesState : imageFilesState[i].originalUrl = k
\* the step just taken settled an imageCompression promise
Completion == last'.op \in {"Resolve", "Reject"}
\* the job a completion reconciles into, when its id is in the store
Target == FindById(imageFilesState, last'.id)
TargetAfter == FindById(imageFilesState', last'.id)
ResultFields(f) == <<f.compressedFile, f.compressedUrl>>

(***************************************************************************)
(* C1: every object URL created for a job (source view or result view) has *)
(* been revoked exactly once by the time that job has left the store, by   *)
(* Remove or by ClearAll; no URL is ever revoked twice.                    *)
(***************************************************************************)
C1_EveryHandleReleasedOnce ==
    \A u \in CreatedUrls :
        /\ TimesRevoked(u) <= 1
        /\ ~JobAlive(urlOwner[u]) => TimesRevoked(u) = 1

(***************************************************************************)
(* C2: when a transformation succeeds for a job that already holds a       *)
(* result URL, that URL is revoked in the step that writes compressedFile, *)
(* compressedUrl and status = done.                                        *)
(***************************************************************************)
C2_OldResultReleasedOnSuccess ==
    [][ ( /\ last'.op = "Resolve"
          /\ HasId(imageFilesState, last'.id)
          /\ Target.compressedUrl # NoUrl )
        => /\ CopiesIn(Target.compressedUrl, revoked')
                = CopiesIn(Target.compressedUrl, revoked) + 1
           /\ TargetAfter.status = "done"
           /\ TargetAfter.compressedFile = Output(last'.inv)
           /\ TargetAfter.compressedUrl = urlNext ]_vars

(***************************************************************************)
(* C3: the completion (resolve or reject) of a transformation whose job    *)
(* was removed while it was in flight leaves the store exactly as it was.  *)
(***************************************************************************)
C3_RemovedJobCompletionIsNoOp ==
    [][ (Completion /\ last'.inv.removed) => imageFilesState' = imageFilesState ]_vars

(***************************************************************************)
(* C4: a transformation that resolves for an id that is not in the store   *)
(* leaves no object URL created and unrevoked.                             *)
(***************************************************************************)
C4_StaleSuccessLeaksNoHandle ==
    [][ (last'.op = "Resolve" /\ ~HasId(imageFilesState, last'.id))
        => \A u \in urlNext..(urlNext' - 1) : CopiesIn(u, revoked') = 1 ]_vars

(***************************************************************************)
(* C5: the completion of a transformation dispatched before a ClearAll     *)
(* changes no job that is in the store after that ClearAll.                *)
(***************************************************************************)
C5_ClearedCompletionIsNoOp ==
    [][ (Completion /\ last'.inv.cleared) => imageFilesState' = imageFilesState ]_vars

(***************************************************************************)
(* C6: ids are unique in the store at every moment, and a Submit never     *)
(* gives a job an id that an earlier job of the session had.               *)
(***************************************************************************)
IdsUnique ==
    \A i, j \in DOMAIN imageFilesState :
        imageFilesState[i].id = imageFilesState[j].id => i = j
C6_IdsNeverReused ==
    /\ []IdsUnique
    /\ [][ last'.op = "Submit" => \A id \in nextId..(nextId' - 1) : id > maxAssigned ]_vars

(***************************************************************************)
(* C7: for every job in the store, status # done implies that the result   *)
(* view handle compressedUrl is null.                                      *)
(***************************************************************************)
C7_NoResultHandleUnlessDone ==
    \A i \in DOMAIN imageFilesState :
        imageFilesState[i].status # "done" => imageFilesState[i].compressedUrl = NoUrl

(***************************************************************************)
(* C7 as amended: a job that is not done has a null compressedUrl unless   *)
(* it still holds the result buffer of an earlier successful run: for      *)
(* every job in the store compressedUrl is null exactly when               *)
(* compressedFile is null.                                                 *)
(***************************************************************************)
C7_ResultHandleIffResultBuffer ==
    \A i \in DOMAIN imageFilesState :
        (imageFilesState[i].compressedUrl = NoUrl)
            <=> (imageFilesState[i].compressedFile = NoFile)

\* a job in error keeps the handle and the buffer of its last successful run
C7_Witness ==
    \E i \in DOMAIN imageFilesState :
        /\ imageFilesState[i].status = "error"
        /\ imageFilesState[i].compressedUrl # NoUrl
        /\ imageFilesState[i].compressedFile # NoFile

(***************************************************************************)
(* C8: a job is created in compressing; its status stays within            *)
(* {compressing, done, error} and changes only along compressing -> done,  *)
(* compressing -> error, done -> compressing and error -> compressing.     *)
(***************************************************************************)
Statuses == {"compressing", "done", "error"}
AllowedTransitions ==
    { <<"compressing", "done">>, <<"compressing", "error">>,
      <<"done", "compressing">>, <<"error", "compressing">> }
C8_StatusTransitions ==
    [][ \A j \in DOMAIN imageFilesState' :
          LET g == imageFilesState'[j]
          IN /\ g.status \in Statuses
             /\ \A i \in DOMAIN imageFilesState :
                   LET f == imageFilesState[i]
                   IN f.originalUrl = g.originalUrl
                        => \/ f.status = g.status
                           \/ <<f.status, g.status>> \in AllowedTransitions
             /\ ~JobAlive(g.originalUrl) => g.status = "compressing" ]_vars

(***************************************************************************)
(* C9: when the transformation of a re-run fails for a job that was done   *)
(* before the re-run, the job afterwards still holds the result buffer and *)
(* the result view handle it had before the re-run, and the failure        *)
(* changes only status, to error; whichever handler started the re-run.    *)
(***************************************************************************)
OnlyStatusChanged(f, g) == g = [f EXCEPT !.status = g.status]
C9_FailedRerunKeepsPriorResult ==
    [][ ( /\ last'.op = "Reject"
          /\ last'.inv.prior.wasDone
          /\ HasId(imageFilesState, last'.id) )
        => /\ TargetAfter.compressedFile = last'.inv.prior.file
           /\ TargetAfter.compressedUrl = last'.inv.prior.url
           /\ TargetAfter.status = "error"
           /\ OnlyStatusChanged(Target, TargetAfter) ]_vars

(***************************************************************************)
(* C9 as amended: a failure changes only the status of its job, to error,  *)
(* and leaves the result buffer and the result view handle as they were    *)
(* just before the failure.  A re-run started by per-job Apply or by       *)
(* ApplyToAll leaves the result fields of every job as they were, so the   *)
(* earlier result is still there when the run is dispatched; a re-run      *)
(* started by per-job Reset nulls both fields of its job at the start.     *)
(***************************************************************************)
C9_FailureChangesOnlyStatus ==
    [][ /\ last'.op = "Reject"
          => /\ Len(imageFilesState') = Len(imageFilesState)
             /\ \A i \in DOMAIN imageFilesState :
                   IF imageFilesState[i].id = last'.id
                   THEN /\ imageFilesState'[i].status = "error"
                        /\ OnlyStatusChanged(imageFilesState[i], imageFilesState'[i])
                   ELSE imageFilesState'[i] = imageFilesState[i]
        /\ last'.op \in {"Apply", "ApplyToAll"}
          => /\ Len(imageFilesState') = Len(imageFilesState)
             /\ \A i \in DOMAIN imageFilesState :
                   ResultFields(imageFilesState'[i]) = ResultFields(imageFilesState[i])
        /\ last'.op = "Reset"
          => ResultFields(TargetAfter) = <<NoFile, NoUrl>> ]_vars

\* a failed re-run of a done job has left the job in error with its result
C9_Witness ==
    /\ last.op = "Reject"
    /\ last.inv.prior.wasDone
    /\ last.inv.prior.url # NoUrl
    /\ HasId(imageFilesState, last.id)
    /\ FindById(imageFilesState, last.id).status = "error"
    /\ FindById(imageFilesState, last.id).compressedUrl = last.inv.prior.url
    /\ FindById(imageFilesState, last.id).compressedFile = last.inv.prior.file

(***************************************************************************)
(* C10: ApplyToAll with a size that is not a positive finite number        *)
(* changes no job, dispatches no transformation and leaves the store as it *)
(* was.                                                                    *)
(***************************************************************************)
C10_InvalidApplyToAllChangesNothing ==
    [][ (last'.op = "ApplyToAll" /\ ~IsPositiveFinite(last'.size))
        => UNCHANGED <<imageFilesState, nextId, pending, runs>> ]_vars


(***************************************************************************)
(* Apply-to-all, lines 272-299.                                            *)
(***************************************************************************)
\* the step is an ApplyToAll whose size passed the validation of line 276
ApplyToAllAccepted ==
    last'.op = "ApplyToAll" /\ ~isNaN(last'.size) /\ ~LeqZero(last'.size)
\* the transformations the step dispatched
Dispatched == { inv \in pending' : inv.run > runs }

\* C11: after an ApplyToAll whose parameters passed validation, every job
\* that was not in error just before the call is compressing and carries
\* the new targetSize and targetUnit, and every job that was in error has
\* all its fields unchanged and gets no transformation dispatched.
C11_ApplyToAllUpdatesEligibleOnly ==
    [][ApplyToAllAccepted =>
         /\ Len(imageFilesState') = Len(imageFilesState)
         /\ \A i \in DOMAIN imageFilesState :
               LET f == imageFilesState[i]
                   g == imageFilesState'[i]
               IN IF f.status # "error"
                  THEN /\ g.status = "compressing"
                       /\ g.targetSize = last'.size
                       /\ g.targetUnit = last'.unit
                       /\ \E inv \in Dispatched : inv.id = f.id
                  ELSE /\ g = f
                       /\ \A inv \in Dispatched :
                             inv.id # f.id /\ inv.job # f.originalUrl]_vars

\* an accepted ApplyToAll has just run over a store that holds a job in
\* error next to an eligible one
C11_Witness ==
    /\ last.op = "ApplyToAll" /\ ~isNaN(last.size) /\ ~LeqZero(last.size)
    /\ \E i, j \in DOMAIN imageFilesState :
          /\ imageFilesState[i].status = "error"
          /\ imageFilesState[j].status = "compressing"
          /\ imageFilesState[j].targetSize = last.size
          /\ imageFilesState[j].targetUnit = last.unit
          /\ \E inv \in pending : inv.id = imageFilesState[j].id

\* C12: ApplyToAll updates all eligible jobs to compressing with the new
\* parameters before it dispatches the first transformation: at the moment
\* each of its transformations is dispatched the store already shows every
\* eligible job compressing with the new parameters, and when the handler
\* returns every one of them is still outstanding (none has completed).
C12_BatchUpdatedBeforeFirstDispatch ==
    [][ApplyToAllAccepted =>
         /\ \A inv \in Dispatched :
               /\ Len(inv.view) = Len(imageFilesState)
               /\ \A i \in DOMAIN imageFilesState :
                     imageFilesState[i].status # "error" =>
                        /\ inv.view[i].id = imageFilesState[i].id
                        /\ inv.view[i].status = "compressing"
                        /\ inv.view[i].targetSize = last'.size
                        /\ inv.view[i].targetUnit = last'.unit
         /\ Cardinality(Dispatched) =
               Cardinality({ i \in DOMAIN imageFilesState :
                               imageFilesState[i].status # "error" })]_vars

\* an accepted ApplyToAll has just dispatched runs for two eligible jobs
C12_Witness ==
    /\ last.op = "ApplyToAll" /\ ~isNaN(last.size) /\ ~LeqZero(last.size)
    /\ \E a, b \in pending :
          /\ a.run # b.run /\ a.id # b.id
          /\ Len(a.view) >= 2 /\ Len(b.view) >= 2
          /\ \A inv \in {a, b} : \A i \in DOMAIN inv.view :
                /\ inv.view[i].status = "compressing"
                /\ inv.view[i].targetSize = last.size

(***************************************************************************)
(* Runs and the jobs they belong to.                                       *)
(***************************************************************************)
\* C13: no second run is started for a job whose run is still outstanding:
\* at most one transformation invocation is outstanding for any job id at
\* any time.
C13_OneOutstandingRunPerId ==
    \A a, b \in pending : a.id = b.id => a = b

\* C14: re-running job X by per-job Apply or Reset, and the later completion
\* of that run, changes no field of any other job Y with a different id
\* (stated for the completion of every run: a completion for id X changes
\* no job whose id is not X, and no step of these adds or drops a job).
C14_RerunTouchesOnlyItsJob ==
    [][last'.op \in {"Apply", "Reset", "Resolve", "Reject"} =>
         /\ Len(imageFilesState') = Len(imageFilesState)
         /\ \A i \in DOMAIN imageFilesState :
               imageFilesState[i].id # last'.id =>
                  imageFilesState'[i] = imageFilesState[i]]_vars

\* the re-run of a done job X has just completed on X while the store holds
\* another job Y whose target parameters differ from X's
C14_Witness ==
    /\ last.op \in {"Resolve", "Reject"}
    /\ last.inv.prior.wasDone
    /\ \E i, j \in DOMAIN imageFilesState :
          /\ imageFilesState[i].id = last.id
          /\ imageFilesState[i].originalUrl = last.inv.job
          /\ imageFilesState[j].id # last.id
          /\ imageFilesState[j].targetSize # imageFilesState[i].targetSize

(***************************************************************************)
(* The toolbar: updateGlobalUI (lines 136-150) and handleDownloadAll       *)
(* (lines 311-340).                                                        *)
(***************************************************************************)
DoneCount == Cardinality({ i \in DOMAIN imageFilesState :
                             imageFilesState[i].status = "done" })
SomeDone == \E i \in DOMAIN imageFilesState : imageFilesState[i].status = "done"
SomeCompressing ==
    \E i \in DOMAIN imageFilesState : imageFilesState[i].status = "compressing"
\* a click can reach the download-all button
DownloadAllEnabled == resultsVisible /\ ~downloadAllBtnDisabled

\* C15: after every operation that renders (and so in every state between
\* handlers) the displayed done count equals the number of jobs with status
\* done, and the anyCompressing fact, as the apply-to-all button shows it, is
\* true exactly when at least one job has status compressing.
C15_DoneCountAndAnyCompressing ==
    /\ downloadCountBadge = DoneCount
    /\ applyToAllBtnDisabled <=> SomeCompressing

\* one job is done and counted while another is compressing
C15_Witness ==
    /\ downloadCountBadge >= 1
    /\ applyToAllBtnDisabled
    /\ SomeCompressing
    /\ \E i \in DOMAIN imageFilesState :
          imageFilesState[i].status # "done"
          /\ imageFilesState[i].compressedFile # NoFile

\* C16: in every reachable state between handlers, the download-all control
\* is enabled if and only if at least one job is done and no job is
\* compressing, the states during and right after a bundling included.
C16_DownloadAllEnabledIffDoneAndIdle ==
    DownloadAllEnabled <=> (SomeDone /\ ~SomeCompressing)

\* C17: apply-to-all and clear-all are enabled if and only if no job is
\* compressing, and neither ApplyToAll nor ClearAll ever executes while some
\* job in the store is compressing.
C17_BatchControlsOnlyWhenIdle ==
    /\ [](/\ applyToAllBtnDisabled <=> SomeCompressing
          /\ clearAllBtnDisabled <=> SomeCompressing)
    /\ [][last'.op \in {"ApplyToAll", "ClearAll"} => ~SomeCompressing]_vars

\* an accepted ApplyToAll has just run, from a store with nothing
\* compressing, and has left both controls disabled
C17_Witness ==
    /\ last.op = "ApplyToAll" /\ ~isNaN(last.size) /\ ~LeqZero(last.size)
    /\ SomeCompressing
    /\ applyToAllBtnDisabled /\ clearAllBtnDisabled

\* C18: while one bundling operation is outstanding a second export-all
\* cannot start (no click can reach the download-all button), so at most one
\* bundling operation is outstanding at any time.
C18_NoSecondBundlingWhileOneOutstanding ==
    /\ Cardinality(zips) <= 1
    /\ zips # {} => ~DownloadAllEnabled

\* C19: the archiver is never invoked when the store holds zero done jobs:
\* in every reachable state with no done job, export-all is disabled.
\* (handleDownloadAll is never a no-op: it calls generateAsync whatever
\* filesToZip holds, lines 317-324.)
C19_NoExportWithoutDoneJob ==
    ~SomeDone => ~DownloadAllEnabled

\* C20: export-all hands the archiver exactly one (name, result buffer)
\* entry for each job that at the time of the call has status done and a
\* non-null result buffer, in store order, the name being 'compressed-'
\* followed by the original file name; jobs that are compressing or in
\* error contribute no entry.
C20_ArchiveHoldsExactlyTheDoneJobs ==
    [][last'.op = "DownloadAll" =>
         \E zip \in zips' \ zips :
            LET R == { i \in DOMAIN imageFilesState :
                         /\ imageFilesState[i].status = "done"
                         /\ imageFilesState[i].compressedFile # NoFile }
            IN /\ zips' = zips \cup {zip}
               /\ Len(zip.entries) = Cardinality(R)
               /\ \A i \in R :
                     zip.entries[Cardinality({ j \in R : j <= i })] =
                        [name |-> <<"compressed-">> \o imageFilesState[i].originalFile,
                         file |-> imageFilesState[i].compressedFile]]_vars

\* export-all has just run over a store of two done jobs and one that is not
C20_Witness ==
    /\ last.op = "DownloadAll"
    /\ \E zip \in zips : Len(zip.entries) = 2
    /\ \E i \in DOMAIN imageFilesState : imageFilesState[i].status = "error"

\* C21: when the archiver rejects, no job's status or other field changes,
\* and the bundling-in-progress state is cleared (label restored, button
\* enabled) so that a later export-all can be started.
C21_ArchiverRejectionChangesNoJob ==
    [][last'.op = "ZipReject" =>
         /\ imageFilesState' = imageFilesState
         /\ pending' = pending
         /\ ~downloadAllZipping'
         /\ ~downloadAllBtnDisabled']_vars

\* the archiver has just rejected while the store holds a done job, and a
\* click can reach download-all again
C21_Witness ==
    /\ last.op = "ZipReject"
    /\ SomeDone
    /\ ~downloadAllZipping
    /\ DownloadAllEnabled

(***************************************************************************)
(* The size budget, lines 152-159 and 293-298.                             *)
(***************************************************************************)
\* the job's entry in the store as invocation inv saw it at its dispatch
SeenBy(inv) ==
    inv.view[CHOOSE i \in DOMAIN inv.view : inv.view[i].id = inv.id]

\* C22: each run invokes the external transformation exactly once, with a
\* size budget equal to the job's target size times 1024 when its unit is
\* KB and times 1024*1024 when its unit is MB, the target parameters being
\* those the job holds when the run is dispatched; a completion dispatches
\* nothing (the runner never re-invokes the transformation within a run).
C22_OneInvocationWithBudgetFromTarget ==
    /\ [](\A inv \in pending :
            /\ \E i \in DOMAIN inv.view : inv.view[i].id = inv.id
            /\ inv.targetBytes =
                  Times(SeenBy(inv).targetSize,
                        IF SeenBy(inv).targetUnit = "KB" THEN 1024
                        ELSE 1024 * 1024)
            /\ SeenBy(inv).targetUnit \in {"KB", "MB"})
    /\ [][/\ runs' - runs = Cardinality(Dispatched)
          /\ last'.op \in {"Resolve", "Reject"} => Dispatched = {}
          /\ last'.op \in {"Apply", "Reset"} =>
                \E inv \in Dispatched : Dispatched = {inv} /\ inv.id = last'.id
          /\ last'.op = "Submit" =>
                Cardinality(Dispatched) = Len(imageFilesState') - Len(imageFilesState)
         ]_vars

\* a run is outstanding whose budget is 2 MB, dispatched for a job whose
\* target was 2 MB at the dispatch
C22_Witness ==
    \E inv \in pending :
       /\ inv.targetBytes = Num(2 * 1024 * 1024)
       /\ \E i \in DOMAIN inv.view :
             /\ inv.view[i].id = inv.id
             /\ inv.view[i].targetSize = Num(2)
             /\ inv.view[i].targetUnit = "MB"

(***************************************************************************)
(* The status at the runner's entry, lines 179-186.                        *)
(***************************************************************************)
\* C23 as stated: whenever compressToTargetSize is invoked for a job, the
\* job's status is already compressing, set by the caller; the runner
\* itself never writes compressing.
C23_CompressingAtRunnerEntry ==
    \A inv \in pending : inv.entry = "compressing"

\* C23 amended: whenever the external transformation is invoked for a job,
\* the job's status is compressing.  The caller has set it when the run
\* comes from Submit or ApplyToAll; for a per-job Apply or Reset the job is
\* still done when compressToTargetSize is entered, and the runner itself
\* writes compressing before it calls the transformation.
C23_CompressingAtTransformationCall ==
    [][\A inv \in Dispatched :
          /\ \E i \in DOMAIN inv.view : inv.view[i].id = inv.id
          /\ SeenBy(inv).status = "compressing"
          /\ last'.op \in {"Submit", "ApplyToAll"} => inv.entry = "compressing"
          /\ last'.op \in {"Apply", "Reset"} => inv.entry = "done"]_vars

\* a per-job Apply or Reset has just dispatched a run: the job was done at
\* the runner's entry and compressing at the call of the transformation
C23_Witness ==
    /\ last.op \in {"Apply", "Reset"}
    /\ \E inv \in pending :
          /\ inv.id = last.id
          /\ inv.entry = "done"
          /\ \E i \in DOMAIN inv.view :
                inv.view[i].id = inv.id /\ inv.view[i].status = "compressing"

(***************************************************************************)
(* Error cards, done jobs and released handles.                            *)
(***************************************************************************)
\* C24: a job in status error can be retried individually: in every
\* reachable state where a job in the store has status error, a per-job
\* re-run (Apply or Reset on its card) is enabled.
C24_ErrorJobCanBeRetried ==
    \A i \in DOMAIN imageFilesState :
       imageFilesState[i].status = "error" =>
          CardControlsEnabled(imageFilesState[i].id)

\* C25: in every reachable state between handlers, every job in the store
\* with status done has a non-null result buffer and a non-null result view
\* handle, also after a per-job Reset, which nulls both fields.
C25_DoneJobHoldsResult ==
    \A i \in DOMAIN imageFilesState :
       imageFilesState[i].status = "done" =>
          /\ imageFilesState[i].compressedFile # NoFile
          /\ imageFilesState[i].compressedUrl # NoUrl

\* a Reset has just nulled the result fields of one job, which is no longer
\* done, while another job is done
C25_Witness ==
    /\ last.op = "Reset"
    /\ \E i, j \in DOMAIN imageFilesState :
          /\ imageFilesState[i].id = last.id
          /\ imageFilesState[i].status = "compressing"
          /\ imageFilesState[i].compressedFile = NoFile
          /\ imageFilesState[i].compressedUrl = NoUrl
          /\ imageFilesState[j].status = "done"

\* C26: in every reachable state between handlers, no job in the store
\* references a view handle (originalUrl or compressedUrl) that has already
\* been released: a handle is released in the step that takes it off the
\* job (Reset) or takes the job out of the store (Remove, ClearAll).
C26_NoReleasedHandleInStore ==
    \A i \in DOMAIN imageFilesState :
       /\ TimesRevoked(imageFilesState[i].originalUrl) = 0
       /\ imageFilesState[i].compressedUrl # NoUrl =>
             TimesRevoked(imageFilesState[i].compressedUrl) = 0

\* a Remove has just released the handles of one job while another job,
\* still in the store, holds both of its handles
C26_Witness ==
    /\ last.op = "Remove"
    /\ \E u \in 1..(urlNext - 1) : TimesRevoked(u) > 0
    /\ \E i \in DOMAIN imageFilesState : imageFilesState[i].compressedUrl # NoUrl

(***************************************************************************)
(* Progress of compressing jobs.                                           *)
(***************************************************************************)
\* the job made from the k-th submitted file is in the store and compressing
JobCompressing(k) ==
    \E i \in DOMAIN imageFilesState :
       /\ imageFilesState[i].originalFile = File(k)
       /\ imageFilesState[i].status = "compressing"

\* C27: every job with status compressing has at least one outstanding
\* transformation invocation for its id, and, every outstanding invocation
\* being settled in the end, every compressing job eventually is done, in
\* error, removed or cleared: no job stays compressing for ever.
C27_CompressingJobsAreSettled ==
    /\ [](\A i \in DOMAIN imageFilesState :
            imageFilesState[i].status = "compressing" =>
               \E inv \in pending : inv.id = imageFilesState[i].id)
    /\ \A k \in 1..MaxRuns : JobCompressing(k) ~> ~JobCompressing(k)

\* one compressing job has just been settled by its own run while another
\* job is still compressing with its run outstanding
C27_Witness ==
    /\ last.op \in {"Resolve", "Reject"}
    /\ \E i, j \in DOMAIN imageFilesState :
          /\ imageFilesState[i].id = last.id
          /\ imageFilesState[i].originalUrl = last.inv.job
          /\ imageFilesState[i].status \in {"done", "error"}
          /\ imageFilesState[j].status = "compressing"
          /\ \E inv \in pending : inv.job = imageFilesState[j].originalUrl

(***************************************************************************)
(* What the transformation is given and what a done job holds.             *)
(***************************************************************************)
\* C28: every invocation of the external transformation receives a size
\* budget that is a positive finite number, whichever operation dispatched
\* it; a per-job Apply with an empty, non-numeric, zero or negative size
\* dispatches no transformation and stores no such target size on the job.
C28_BudgetIsPositiveFinite ==
    /\ \A inv \in pending : IsPositiveFinite(inv.targetBytes)
    /\ \A i \in DOMAIN imageFilesState :
          IsPositiveFinite(imageFilesState[i].targetSize)

\* C29: whenever a job in the store has status done, its result buffer is
\* the output of the most recently dispatched transformation of that same
\* job (none of its own runs is still outstanding), computed from the job's
\* own source buffer with the target parameters the job currently holds; a
\* completion of an older or foreign invocation never supplies it.
C29_ResultIsFromLatestOwnRun ==
    \A i \in DOMAIN imageFilesState :
       LET f == imageFilesState[i]
       IN f.status = "done" =>
             /\ f.compressedFile.of = f.originalFile
             /\ f.compressedFile.budget =
                   Times(f.targetSize,
                         IF f.targetUnit = "MB" THEN 1024 * 1024 ELSE 1024)
             /\ \A inv \in pending : inv.job # f.originalUrl

====
